---- MODULE Spec2Model ----
(***************************************************************************)
(* Model of bot.py: the hatnote clean-up bot.                              *)
(*                                                                         *)
(* Wikitext is modelled as the node tree mwparserfromhell builds: a        *)
(* Wikicode is a sequence of nodes, a node is a text run, a wikilink or a  *)
(* template; a template has a name (a Wikicode, so it may itself hold      *)
(* templates) and an ordered list of parameter values (each a Wikicode).   *)
(* A template object is identified by its path in the parsed tree; a       *)
(* removed node leaves a marker behind so that the paths of the other      *)
(* nodes stay those of the objects filter_templates() returned.            *)
(***************************************************************************)
EXTENDS Integers, Sequences, FiniteSets, TLC

(***************************************************************************)
(* Bounds of the model.                                                    *)
(***************************************************************************)
\* Pages the problem category lists at most.
MaxPages == 2
\* Wikilinks one parameter value holds at most.
MaxLinks == 2

(***************************************************************************)
(* Program constants.                                                      *)
(***************************************************************************)
batch_size == 50
DEFAULT_MAX_ARTICLES == 20

NoValue == "<none>"

(***************************************************************************)
(* String helpers.  Strings are atoms for TLC, so str.strip(), str.lower() *)
(* and int() are given by their value on each string the model uses.       *)
(***************************************************************************)
strip(s) ==
    CASE s = " Hatnote\n" -> "Hatnote"
      [] s = "   "        -> ""
      [] s = " HatnoteBot " -> "HatnoteBot"
      [] s = " Yes "      -> "Yes"
      [] s = " 1 "        -> "1"
      [] OTHER            -> s

lower(s) ==
    CASE s = "Yes"   -> "yes"
      [] s = "TRUE"  -> "true"
      [] s = "False" -> "false"
      [] OTHER       -> s

\* int(s) raises ValueError unless the string is a numeral.
IsNumeral(s) == s \in {"1", "2"}
int(s) ==
    CASE s = "1" -> 1
      [] s = "2" -> 2
      [] OTHER   -> 0

\* str.replace("Template:", "") of main().
ReplaceTemplatePrefix(t) ==
    CASE t = "Template:Hatnote" -> "Hatnote"
      [] t = "Template:About"   -> "About"
      [] OTHER                  -> t

(***************************************************************************)
(* The wikitext tree.                                                      *)
(***************************************************************************)
Text(s) == [kind |-> "text", s |-> s]
Wikilink(t) == [kind |-> "link", title |-> t]
Template(n, ps) == [kind |-> "tpl", name |-> n, params |-> ps]
\* What wikicode.remove(node) leaves where the node was: nothing.
Removed == [kind |-> "removed"]

RECURSIVE Str(_)
RECURSIVE StrParams(_)
\* str(node)
StrNode(node) ==
    CASE node.kind = "text" -> node.s
      [] node.kind = "link" -> "[[" \o node.title \o "]]"
      [] node.kind = "tpl"  -> "{{" \o Str(node.name) \o StrParams(node.params) \o "}}"
      [] OTHER              -> ""
\* str(wikicode): the nodes' texts joined.
Str(code) ==
    IF code = <<>> THEN "" ELSE StrNode(Head(code)) \o Str(Tail(code))
StrParams(ps) ==
    IF ps = <<>> THEN "" ELSE "|" \o Str(Head(ps)) \o StrParams(Tail(ps))

\* The Wikicode children of a template, in __children__ order: the name, then
\* each parameter's value.
Slot(tpl, s) == IF s = 1 THEN tpl.name ELSE tpl.params[s - 1]
NumSlots(tpl) == 1 + Len(tpl.params)

RECURSIVE TemplatesFrom(_, _, _, _)
RECURSIVE TemplatesUnder(_, _, _)
\* The template paths of code[i..], in document (pre-) order: a template before
\* the templates inside it.
TemplatesFrom(code, base, s, i) ==
    IF i > Len(code) THEN <<>>
    ELSE LET node == code[i]
             path == Append(base, <<s, i>>)
         IN  (IF node.kind = "tpl"
                 THEN <<path>> \o TemplatesUnder(node, path, 1)
                 ELSE <<>>)
             \o TemplatesFrom(code, base, s, i + 1)
TemplatesUnder(tpl, path, s) ==
    IF s > NumSlots(tpl) THEN <<>>
    ELSE TemplatesFrom(Slot(tpl, s), path, s, 1) \o TemplatesUnder(tpl, path, s + 1)

\* wikicode.filter_templates(): recursive by default, outer template first.
filter_templates(code) == TemplatesFrom(code, <<>>, 0, 1)

RECURSIVE filter_wikilinks(_)
RECURSIVE WikilinksUnder(_, _)
\* wikicode.filter_wikilinks(): every wikilink of the fragment, those inside
\* nested templates included, in document order.
filter_wikilinks(code) ==
    IF code = <<>> THEN <<>>
    ELSE LET node == Head(code)
         IN  (CASE node.kind = "link" -> <<node>>
                [] node.kind = "tpl"  -> WikilinksUnder(node, 1)
                [] OTHER              -> <<>>)
             \o filter_wikilinks(Tail(code))
WikilinksUnder(tpl, s) ==
    IF s > NumSlots(tpl) THEN <<>>
    ELSE filter_wikilinks(Slot(tpl, s)) \o WikilinksUnder(tpl, s + 1)

RECURSIVE NodeAt(_, _)
\* The node a path names, or Removed when the path no longer leads to it.
NodeAt(code, path) ==
    LET i  == path[1][2]
        nd == IF i <= Len(code) THEN code[i] ELSE Removed
    IN  IF Len(path) = 1 THEN nd
        ELSE IF nd.kind # "tpl" THEN Removed
        ELSE NodeAt(Slot(nd, path[2][1]), Tail(path))

RECURSIVE ReplaceAt(_, _, _)
\* The tree with the node at path replaced.
ReplaceAt(code, path, new) ==
    LET i  == path[1][2]
        nd == code[i]
    IN  IF Len(path) = 1 THEN [code EXCEPT ![i] = new]
        ELSE LET s == path[2][1]
                 sub == ReplaceAt(Slot(nd, s), Tail(path), new)
             IN  [code EXCEPT ![i] =
                    IF s = 1 THEN [nd EXCEPT !.name = sub]
                    ELSE [nd EXCEPT !.params[s - 1] = sub]]

(***************************************************************************)
(* The filter of process_pages.                                            *)
(***************************************************************************)
\* name = template.name.strip(); name in hatnote_templates
IsHatnote(tpl, hatnotes) == strip(Str(tpl.name)) \in hatnotes

\* target = str(link.title).split("|")[0].  The parser already ends a link's
\* title at the first "|", so the split keeps the whole title.
TargetOf(link) == link.title

RECURSIVE ParamTargets(_, _)
\* The link targets of params[k..], in parameter order, then link order.
ParamTargets(ps, k) ==
    IF k > Len(ps) THEN <<>>
    ELSE LET links == filter_wikilinks(ps[k])
         IN  [j \in 1..Len(links) |-> TargetOf(links[j])] \o ParamTargets(ps, k + 1)

TemplateTargets(tpl) == ParamTargets(tpl.params, 1)

SeqRange(q) == {q[j] : j \in 1..Len(q)}

\* The first loop over the templates: the targets of every hatnote template
\* that are not keys of the cache.
CollectTargets(code, hatnotes, cache) ==
    LET paths == filter_templates(code)
    IN  UNION {
          {t \in SeqRange(TemplateTargets(NodeAt(code, paths[j]))) : t \notin DOMAIN cache}
            : j \in {k \in 1..Len(paths) : IsHatnote(NodeAt(code, paths[k]), hatnotes)} }

\* existence_cache.get(target, False)
CacheGet(cache, t) == IF t \in DOMAIN cache THEN cache[t] ELSE FALSE

RECURSIVE ScanTargetsNoBreak(_, _)
\* ScanTargets without the breaks: every target is looked up.
ScanTargetsNoBreak(targets, cache) ==
    IF targets = <<>> THEN [remove |-> FALSE, examined |-> <<>>]
    ELSE LET rest == ScanTargetsNoBreak(Tail(targets), cache)
         IN  [remove |-> rest.remove \/ ~CacheGet(cache, Head(targets)),
              examined |-> <<Head(targets)>> \o rest.examined]

\* ScanTargets deciding the other way round: remove unless a target exists.
ScanTargetsRemoveUnlessFound(targets, cache) ==
    [remove |-> ~\E j \in 1..Len(targets) : CacheGet(cache, targets[j]),
     examined |-> targets]

RECURSIVE ScanTargets(_, _)
\* The two nested loops over one template's parameters and links, with their
\* breaks: examined lists the targets looked up, in order.
ScanTargets(targets, cache) ==
    IF targets = <<>> THEN [remove |-> FALSE, examined |-> <<>>]
    ELSE IF ~CacheGet(cache, Head(targets))
         THEN [remove |-> TRUE, examined |-> <<Head(targets)>>]
         ELSE LET rest == ScanTargets(Tail(targets), cache)
              IN  [remove |-> rest.remove,
                   examined |-> <<Head(targets)>> \o rest.examined]

RECURSIVE RemoveLoop(_, _, _, _, _)
\* The second loop over the templates.  parsed is the tree as parsed (the
\* template objects the list holds), cur the tree being mutated.  failed:
\* wikicode.remove() raised ValueError, the node being no longer in the tree.
RemoveLoop(parsed, cur, paths, hatnotes, cache) ==
    IF paths = <<>>
    THEN [wikicode |-> cur, modified |-> FALSE, failed |-> FALSE, scans |-> <<>>]
    ELSE LET path == Head(paths)
             tpl  == NodeAt(parsed, path)
         IN  IF ~IsHatnote(tpl, hatnotes)
             THEN RemoveLoop(parsed, cur, Tail(paths), hatnotes, cache)
             ELSE LET scan == ScanTargets(TemplateTargets(tpl), cache)
                      this == [path |-> path, examined |-> scan.examined,
                               remove |-> scan.remove]
                  IN  IF ~scan.remove
                      THEN LET rest == RemoveLoop(parsed, cur, Tail(paths), hatnotes, cache)
                           IN  [rest EXCEPT !.scans = <<this>> \o @]
                      ELSE IF NodeAt(cur, path).kind # "tpl"
                      THEN [wikicode |-> cur, modified |-> FALSE, failed |-> TRUE,
                            scans |-> <<this>>]
                      ELSE LET rest == RemoveLoop(parsed, ReplaceAt(cur, path, Removed),
                                                  Tail(paths), hatnotes, cache)
                           IN  [rest EXCEPT !.modified = TRUE,
                                            !.scans = <<this>> \o @]

(***************************************************************************)
(* The wiki behind the API.                                                *)
(***************************************************************************)
\* The pages that exist, under their canonical titles.
WikiPages == {"Real Page"}

\* The title the API returns a page under (page["title"]): MediaWiki
\* capitalises the first letter and turns underscores into spaces.
APINormalize(t) ==
    CASE t = "real Page" -> "Real Page"
      [] t = "Real_Page" -> "Real Page"
      [] OTHER           -> t

RECURSIVE Batches(_)
\* for i in range(0, len(titles), batch_size): batch = titles[i:i+batch_size]
Batches(titles) ==
    IF titles = {} THEN <<>>
    ELSE LET n == IF Cardinality(titles) < batch_size
                    THEN Cardinality(titles) ELSE batch_size
             batch == CHOOSE b \in SUBSET titles : Cardinality(b) = n
         IN  <<batch>> \o Batches(titles \ batch)

\* One existence query's answer: existence[page["title"]] = "missing" not in page
QueryResult(batch) ==
    [k \in {APINormalize(t) : t \in batch} |-> k \in WikiPages]

\* existence_cache.update(results)
Update(cache, results) == results @@ cache

RECURSIVE MergeResults(_)
MergeResults(batches) ==
    IF batches = <<>> THEN <<>>
    ELSE Update(QueryResult(Head(batches)), MergeResults(Tail(batches)))

\* get_pages_existence(titles): the merged answers of the batches.
get_pages_existence(titles) == MergeResults(Batches(titles))

RECURSIVE Reparse(_)
RECURSIVE ReparseParams(_)
\* mwparserfromhell.parse(str(code)): the tree the serialised text parses to.
\* A removed node has no text, and text runs that have become adjacent are
\* one run.
Reparse(code) ==
    IF code = <<>> THEN <<>>
    ELSE LET node == Head(code)
             rest == Reparse(Tail(code))
         IN  CASE node.kind = "removed" -> rest
               [] node.kind = "tpl" ->
                    <<Template(Reparse(node.name), ReparseParams(node.params))>> \o rest
               [] node.kind = "text" /\ rest # <<>> /\ Head(rest).kind = "text" ->
                    <<Text(node.s \o Head(rest).s)>> \o Tail(rest)
               [] OTHER -> <<node>> \o rest
ReparseParams(ps) ==
    IF ps = <<>> THEN <<>> ELSE <<Reparse(Head(ps))>> \o ReparseParams(Tail(ps))

(***************************************************************************)
(* Inputs: the environment, the category listings and the page texts.      *)
(***************************************************************************)
\* os.environ.get(name): NoValue stands for None.
UserEnv == {NoValue, "", "   ", " HatnoteBot "}
PasswordEnv == {NoValue, "", "   ", "secret"}
DryRunEnv == {NoValue, "", "TRUE", " Yes ", "1", "False", "0"}
MaxArticlesEnv == {NoValue, " 1 ", "many"}

HatnoteCategoryMembers == <<"Template:Hatnote", "Template:About">>
PageTitle(i) == "Article " \o ToString(i)

LinkTargets == {"Real Page", "real Page", "Nonexistent Page"}
Links == {Wikilink(t) : t \in LinkTargets}
LinkRuns == UNION {[1..k -> Links] : k \in 1..MaxLinks}
NoLinkValue == <<Text("about this page")>>
SingleValues == {NoLinkValue} \cup {<<Text("See also "), l>> : l \in Links}
Values == {NoLinkValue} \cup {<<Text("See also ")>> \o r : r \in LinkRuns}

\* Templates whose parameters hold text and links only.
LeafTemplates ==
    {Template(<<Text(n)>>, ps) :
        n \in {"Hatnote", " Hatnote\n", "Infobox"},
        ps \in {<<>>} \cup {<<v>> : v \in Values}
                     \cup {<<v, w>> : v \in SingleValues, w \in SingleValues}}
InnerHatnotes == {Template(<<Text("Hatnote")>>, <<v>>) : v \in SingleValues}
InnerTemplates ==
    InnerHatnotes \cup
    {Template(<<Text("Infobox")>>, <<v>>) :
        v \in {NoLinkValue, <<Text("See also "), Wikilink("Nonexistent Page")>>}}
\* Templates with a template inside a parameter value.
NestedTemplates ==
    {Template(<<Text(n)>>, <<pre \o <<inner>>>>) :
        n \in {"Hatnote", "Infobox"},
        pre \in {<<>>, <<Wikilink("Nonexistent Page")>>, <<Wikilink("Real Page")>>},
        inner \in InnerTemplates}
\* Templates with a template inside the name, as in {{{{Hatnote|...}}Hatnote|...}}.
NameNestedTemplates ==
    {Template(<<inner, Text("Hatnote")>>, <<<<Text("See also "), l>>>>) :
        inner \in InnerHatnotes,
        l \in {Wikilink("Nonexistent Page"), Wikilink("Real Page")}}
PairTemplates ==
    InnerHatnotes \cup {Template(<<Text("Infobox")>>, <<NoLinkValue>>)}

\* The parse trees of the page texts the wiki may hold; <<>> is the empty text.
Docs ==
    {<<>>}
    \cup {<<t>> : t \in LeafTemplates \cup NestedTemplates \cup NameNestedTemplates}
    \cup {<<t, u>> : t \in PairTemplates, u \in PairTemplates}

(***************************************************************************)
(* Environment handling.                                                   *)
(***************************************************************************)
\* get_required_env testing only "not value": a blank value passes.
get_required_env_NoStrip(value) ==
    IF value = NoValue \/ value = "" THEN NoValue ELSE strip(value)

\* get_required_env: the stripped value, or NoValue where it calls sys.exit(1).
get_required_env(value) ==
    IF value = NoValue \/ value = "" \/ strip(value) = "" THEN NoValue
    ELSE strip(value)

get_int_env(value, default) ==
    IF value # NoValue /\ value # "" /\ strip(value) # ""
       /\ IsNumeral(strip(value))
    THEN int(strip(value))
    ELSE default

get_bool_env(value, default) ==
    IF value # NoValue /\ value # "" /\ strip(value) # ""
    THEN lower(strip(value)) \in {"true", "1", "yes"}
    ELSE default

\* edit_page without the DRY_RUN test.
edit_page_NoDryRun(dry_run, answer) ==
    IF answer = "fail" THEN [posted |-> TRUE, exits |-> TRUE, printed |-> "api_error"]
    ELSE IF answer = "Success" THEN [posted |-> TRUE, exits |-> FALSE, printed |-> "edited"]
    ELSE [posted |-> TRUE, exits |-> FALSE, printed |-> "edit_failed"]

\* edit_page ending the run on an error object.
edit_page_ExitOnError(dry_run, answer) ==
    IF dry_run THEN [posted |-> FALSE, exits |-> FALSE, printed |-> "dry_run"]
    ELSE IF answer = "Success" THEN [posted |-> TRUE, exits |-> FALSE, printed |-> "edited"]
    ELSE [posted |-> TRUE, exits |-> TRUE, printed |-> "edit_failed"]

\* edit_page: what one call does, given the API's answer to the POST
\* ("Success", "error": an error object, "fail": api_post exits the process).
edit_page(dry_run, answer) ==
    IF dry_run THEN [posted |-> FALSE, exits |-> FALSE, printed |-> "dry_run"]
    ELSE IF answer = "fail" THEN [posted |-> TRUE, exits |-> TRUE, printed |-> "api_error"]
    ELSE IF answer = "Success" THEN [posted |-> TRUE, exits |-> FALSE, printed |-> "edited"]
    ELSE [posted |-> TRUE, exits |-> FALSE, printed |-> "edit_failed"]

\* problem_pages[:MAX_ARTICLES]
Truncate(pages, n) == SubSeq(pages, 1, IF n < Len(pages) THEN n ELSE Len(pages))

(***************************************************************************)
(* State.                                                                  *)
(***************************************************************************)
VARIABLES
    pc,                 \* where the process is
    environ,            \* the credential variables of the environment
    exit_code,          \* the process's exit status once it has ended
    requests,           \* the kinds of API request attempted so far
    DRY_RUN,
    MAX_ARTICLES,
    csrf_token,
    hatnote_templates,
    problem_pages,
    idx,                \* position of page_title in problem_pages
    text,               \* the page text fetched
    parsed,             \* the template objects as parsed
    wikicode,           \* the tree, mutated by the removals
    modified,
    targets_to_check,
    existence_cache,
    edits_made,
    queries,            \* the title batches sent for the current page
    queried_before,     \* the titles sent in existence queries for earlier pages
    scans,              \* per hatnote template of the page, the targets looked up
    edit_answers,       \* the API's answer to each edit request sent
    edit_log,           \* what edit_page printed, call by call
    summary             \* the figures of the final summary

vars == <<pc, environ, exit_code, requests, DRY_RUN, MAX_ARTICLES, csrf_token,
          hatnote_templates, problem_pages, idx, text, parsed, wikicode, modified,
          targets_to_check, existence_cache, edits_made, queries, queried_before,
          scans, edit_answers, edit_log, summary>>

config_vars == <<DRY_RUN, MAX_ARTICLES>>
run_vars == <<csrf_token, hatnote_templates, problem_pages>>
page_vars == <<text, parsed, wikicode, modified, targets_to_check, queries, scans>>
edit_vars == <<edits_made, edit_answers, edit_log>>

Init ==
    /\ pc = "config"
    /\ environ \in [BOT_USER : UserEnv, BOT_PASSWORD : PasswordEnv]
    /\ exit_code = NoValue
    /\ requests = {}
    /\ DRY_RUN = TRUE
    /\ MAX_ARTICLES = DEFAULT_MAX_ARTICLES
    /\ csrf_token = NoValue
    /\ hatnote_templates = <<>>
    /\ problem_pages = <<>>
    /\ idx = 1
    /\ text = NoValue
    /\ parsed = <<>>
    /\ wikicode = <<>>
    /\ modified = FALSE
    /\ targets_to_check = {}
    /\ existence_cache = <<>>
    /\ edits_made = 0
    /\ queries = <<>>
    /\ queried_before = {}
    /\ scans = <<>>
    /\ edit_answers = <<>>
    /\ edit_log = <<>>
    /\ summary = NoValue

\* sys.exit(1)
Exit ==
    /\ pc' = "exited"
    /\ exit_code' = 1

\* The next iteration of the loop over problem_pages.
NextPage ==
    /\ pc' = "fetch"
    /\ idx' = idx + 1
    /\ text' = NoValue
    /\ parsed' = <<>>
    /\ wikicode' = <<>>
    /\ modified' = FALSE
    /\ targets_to_check' = {}
    /\ queries' = <<>>
    /\ scans' = <<>>
    /\ queried_before' = queried_before \cup UNION SeqRange(queries)

\* Module level: the credentials, MAX_ARTICLES and DRY_RUN are read.
LoadConfig ==
    /\ pc = "config"
    /\ \E max \in MaxArticlesEnv, dry \in DryRunEnv :
         IF get_required_env(environ.BOT_USER) = NoValue
            \/ get_required_env(environ.BOT_PASSWORD) = NoValue
         THEN /\ Exit
              /\ UNCHANGED config_vars
         ELSE /\ pc' = "login"
              /\ MAX_ARTICLES' = get_int_env(max, DEFAULT_MAX_ARTICLES)
              /\ DRY_RUN' = get_bool_env(dry, TRUE)
              /\ UNCHANGED exit_code
    /\ UNCHANGED <<environ, requests, run_vars, idx, page_vars, existence_cache,
                   edit_vars, queried_before, summary>>

\* login(): the login token, the login POST, the CSRF token.
Login ==
    /\ pc = "login"
    /\ requests' = requests \cup {"login"}
    /\ \E outcome \in {"ok", "request_failed", "not_success"} :
         IF outcome = "ok"
         THEN /\ pc' = "categories"
              /\ csrf_token' = "csrf"
              /\ UNCHANGED exit_code
         ELSE /\ Exit
              /\ UNCHANGED csrf_token
    /\ UNCHANGED <<environ, config_vars, hatnote_templates, problem_pages, idx,
                   page_vars, existence_cache, edit_vars, queried_before, summary>>

\* main(): the two category listings, the prefix removed, the list truncated.
LoadCategories ==
    /\ pc = "categories"
    /\ requests' = requests \cup {"category"}
    /\ \E outcome \in {"ok", "request_failed"}, n \in 0..MaxPages :
         IF outcome = "ok"
         THEN /\ pc' = "fetch"
              /\ hatnote_templates' =
                     [j \in 1..Len(HatnoteCategoryMembers) |->
                         ReplaceTemplatePrefix(HatnoteCategoryMembers[j])]
              /\ problem_pages' = Truncate([j \in 1..n |-> PageTitle(j)], MAX_ARTICLES)
              /\ UNCHANGED exit_code
         ELSE /\ Exit
              /\ UNCHANGED <<hatnote_templates, problem_pages>>
    /\ UNCHANGED <<environ, config_vars, csrf_token, idx, page_vars, existence_cache,
                   edit_vars, queried_before, summary>>

\* One page is fetched and parsed, and the targets to check are collected.
GetPage ==
    /\ pc = "fetch"
    /\ idx <= Len(problem_pages)
    /\ requests' = requests \cup {"content"}
    /\ \/ \* api_get fails
          /\ Exit
          /\ UNCHANGED <<idx, page_vars, queried_before>>
       \/ \* get_page_text returns None (no revisions) or "": continue
          /\ NextPage
          /\ UNCHANGED exit_code
       \/ \E doc \in Docs \ {<<>>} :
            /\ pc' = "check"
            /\ text' = Str(doc)
            /\ parsed' = doc
            /\ wikicode' = doc
            /\ modified' = FALSE
            /\ targets_to_check' =
                   CollectTargets(doc, SeqRange(hatnote_templates), existence_cache)
            /\ UNCHANGED <<exit_code, idx, queries, scans, queried_before>>
    /\ UNCHANGED <<environ, config_vars, run_vars, existence_cache, edit_vars, summary>>

\* The new targets are checked in batches and the answers cached.
BatchCheck ==
    /\ pc = "check"
    /\ IF targets_to_check = {}
       THEN /\ pc' = "remove"
            /\ UNCHANGED <<exit_code, requests, queries, existence_cache>>
       ELSE /\ requests' = requests \cup {"existence"}
            /\ queries' = Batches(targets_to_check)
            /\ \E outcome \in {"ok", "request_failed"} :
                 IF outcome = "ok"
                 THEN /\ pc' = "remove"
                      /\ existence_cache' =
                             Update(existence_cache, get_pages_existence(targets_to_check))
                      /\ UNCHANGED exit_code
                 ELSE /\ Exit
                      /\ UNCHANGED existence_cache
    /\ UNCHANGED <<environ, config_vars, run_vars, idx, text, parsed, wikicode, modified,
                   targets_to_check, edit_vars, queried_before, scans, summary>>

\* The hatnote templates with a missing target are removed from the tree.
RemoveBroken ==
    /\ pc = "remove"
    /\ LET r == RemoveLoop(parsed, wikicode, filter_templates(wikicode),
                           SeqRange(hatnote_templates), existence_cache)
       IN  /\ wikicode' = r.wikicode
           /\ modified' = r.modified
           /\ scans' = r.scans
           /\ IF r.failed
              THEN /\ pc' = "crashed"
                   /\ exit_code' = 1
              ELSE /\ pc' = "submit"
                   /\ UNCHANGED exit_code
    /\ UNCHANGED <<environ, requests, config_vars, run_vars, idx, text, parsed,
                   targets_to_check, existence_cache, edit_vars, queries,
                   queried_before, summary>>

\* if modified: edit_page(...); edits_made += 1
Submit ==
    /\ pc = "submit"
    /\ IF ~modified
       THEN /\ NextPage
            /\ UNCHANGED <<exit_code, requests, edit_vars>>
       ELSE \E answer \in {"Success", "error", "fail"} :
              LET e == edit_page(DRY_RUN, answer)
              IN  /\ requests' = IF e.posted THEN requests \cup {"edit"} ELSE requests
                  /\ edit_answers' =
                         IF e.posted THEN Append(edit_answers, answer) ELSE edit_answers
                  /\ IF e.exits
                     THEN /\ Exit
                          /\ UNCHANGED <<idx, page_vars, queried_before, edits_made,
                                         edit_log>>
                     ELSE /\ edit_log' = Append(edit_log, e.printed)
                          /\ edits_made' = edits_made + 1
                          /\ NextPage
                          /\ UNCHANGED exit_code
    /\ UNCHANGED <<environ, config_vars, run_vars, existence_cache, summary>>

\* main(): the loop is over and the summary is printed.
Finish ==
    /\ pc = "fetch"
    /\ idx > Len(problem_pages)
    /\ pc' = "done"
    /\ exit_code' = 0
    /\ summary' = [pages_processed |-> Len(problem_pages), edits_made |-> edits_made]
    /\ UNCHANGED <<environ, requests, config_vars, run_vars, idx, page_vars,
                   existence_cache, edit_vars, queried_before>>

Next ==
    \/ LoadConfig
    \/ Login
    \/ LoadCategories
    \/ GetPage
    \/ BatchCheck
    \/ RemoveBroken
    \/ Submit
    \/ Finish

Spec == Init /\ [][Next]_vars

(***************************************************************************)
(* Properties.                                                             *)
(***************************************************************************)
Hatnotes == SeqRange(hatnote_templates)
\* The hatnote templates of the page as parsed.
HatnotePaths ==
    {p \in SeqRange(filter_templates(parsed)) : IsHatnote(NodeAt(parsed, p), Hatnotes)}
TargetsAt(p) == SeqRange(TemplateTargets(NodeAt(parsed, p)))
\* The page a link points to exists on the wiki.
ExistsOnWiki(t) == APINormalize(t) \in WikiPages
\* The template is still part of the page's tree.
InTree(p) == NodeAt(wikicode, p).kind = "tpl"
\* The templates the loop decided to remove.
RemoveCalls == {scans[j].path : j \in {k \in 1..Len(scans) : scans[k].remove}}
IsProperPrefix(q, p) == Len(q) < Len(p) /\ SubSeq(p, 1, Len(q)) = q
Count(q, x) == Cardinality({j \in 1..Len(q) : q[j] = x})
SentNow == UNION SeqRange(queries)
\* The removal loop has run on the current page.
Filtered == pc \in {"submit", "crashed"}

\* C1: when every link target of every hatnote template of the page exists on
\* the wiki, the text is left unchanged and modified stays false.
C1_ExistingTargetsKeepText ==
    (Filtered /\ \A p \in HatnotePaths : \A t \in TargetsAt(p) : ExistsOnWiki(t))
        => (pc = "submit" /\ ~modified /\ Str(wikicode) = text)

\* C2: every hatnote template with a link whose target the cache marks false is
\* removed, modified becomes true, and the removal does not fail.
C2_BrokenHatnotesRemoved ==
    Filtered =>
        \A p \in HatnotePaths :
            (\E t \in TargetsAt(p) : ~CacheGet(existence_cache, t))
                => (pc # "crashed" /\ modified /\ ~InTree(p))

\* C3: n titles are queried in ceil(n/50) batches of at most 50, and no title
\* sent for an earlier page is sent again.
C3_BatchedAndNeverRequeried ==
    pc \in {"remove", "submit", "crashed"} =>
        /\ Len(queries) * batch_size >= Cardinality(targets_to_check)
        /\ (Len(queries) - 1) * batch_size < Cardinality(targets_to_check)
        /\ \A j \in 1..Len(queries) : Cardinality(queries[j]) <= batch_size
        /\ SentNow \cap queried_before = {}

\* C4: with DRY_RUN true no edit request is ever sent; a would-be edit only
\* prints the dry-run notice.
C4_DryRunSendsNoEdit ==
    DRY_RUN =>
        /\ edit_answers = <<>>
        /\ "edit" \notin requests
        /\ \A j \in 1..Len(edit_log) : edit_log[j] = "dry_run"
C4_Witness ==
    pc = "done" /\ DRY_RUN /\ Len(edit_log) = MaxPages

\* C5: with BOT_USER or BOT_PASSWORD absent, empty or blank, the process exits
\* with status 1 and no API request is ever attempted.
CredentialMissing(v) == v = NoValue \/ v = "" \/ v = "   "
C5_MissingCredentialAborts ==
    (CredentialMissing(environ.BOT_USER) \/ CredentialMissing(environ.BOT_PASSWORD))
        => /\ requests = {}
           /\ pc \in {"config", "exited"}
           /\ pc = "exited" => exit_code = 1
C5_Witness ==
    /\ pc = "exited"
    /\ ~CredentialMissing(environ.BOT_USER)
    /\ environ.BOT_PASSWORD = "   "

\* C6: an edit the API answers with an error object is logged and the loop goes
\* on to the next page; a run that ends with the summary has been through
\* every page of the list.
C6_RejectedEditContinues ==
    /\ [][edit_answers' = Append(edit_answers, "error")
            => /\ pc' = "fetch"
               /\ idx' = idx + 1
               /\ edit_log' = Append(edit_log, "edit_failed")
               /\ exit_code' = exit_code]_vars
    /\ [](pc = "done" => idx = Len(problem_pages) + 1)
C6_Witness ==
    /\ pc = "done"
    /\ Len(edit_answers) = MaxPages
    /\ edit_answers[1] = "error"
    /\ edit_answers[MaxPages] = "Success"

\* C7: the summary's "Edits made" is the number of edit requests the API
\* answered with Success.
C7_EditsMadeCountsRealEdits ==
    pc = "done" => summary.edits_made = Count(edit_answers, "Success")

\* C8: filtering the text the filter produced, with the same hatnote names and
\* the same existence answers, removes nothing.
C8_FilterIdempotent ==
    pc = "submit" =>
        LET again  == Reparse(wikicode)
            fresh  == CollectTargets(again, Hatnotes, existence_cache)
            cache2 == Update(existence_cache, get_pages_existence(fresh))
            second == RemoveLoop(again, again, filter_templates(again), Hatnotes, cache2)
        IN  ~second.modified /\ ~second.failed

\* C9 (as stated): a hatnote template without any wikilink is still in the page
\* after the removals.
C9_NoLinkHatnoteStays ==
    Filtered => \A p \in HatnotePaths : TargetsAt(p) = {} => InTree(p)
\* C9 (amended): a hatnote template without any wikilink is never itself
\* removed; it leaves the page only inside a removed template that holds it.
C9_NoLinkHatnoteNotChosen ==
    Filtered =>
        \A p \in HatnotePaths :
            TargetsAt(p) = {} =>
                /\ p \notin RemoveCalls
                /\ InTree(p) \/ \E q \in RemoveCalls : IsProperPrefix(q, p)
C9_Witness ==
    /\ pc = "submit"
    /\ modified
    /\ \E q \in RemoveCalls : \E t \in TargetsAt(q) : ~ExistsOnWiki(t)
    /\ \E p \in HatnotePaths : TargetsAt(p) = {} /\ InTree(p)

\* The targets up to and including the first one the cache does not mark true.
UpToFirstMissing(targets, cache) ==
    LET bad == {j \in 1..Len(targets) : ~CacheGet(cache, targets[j])}
    IN  IF bad = {} THEN targets
        ELSE SubSeq(targets, 1, CHOOSE j \in bad : \A k \in bad : j <= k)

\* C10 (as stated): no existence check is made for a target the decision does
\* not examine.
C10_OnlyExaminedTargetsChecked ==
    Filtered =>
        SentNow \subseteq UNION {SeqRange(scans[j].examined) : j \in 1..Len(scans)}
\* C10 (amended): the decision looks the targets up in parameter order then
\* link order and stops at the first one not marked existing; the existence
\* query before it covers every target of the page's hatnote templates that
\* is not yet a key of the cache.
C10_LookupShortCircuits ==
    Filtered =>
        /\ \A j \in 1..Len(scans) :
              LET targets == TemplateTargets(NodeAt(parsed, scans[j].path))
              IN  /\ scans[j].path \in HatnotePaths
                  /\ scans[j].examined = UpToFirstMissing(targets, existence_cache)
                  /\ scans[j].remove <=> Len(scans[j].examined) > 0
                        /\ ~CacheGet(existence_cache,
                                     scans[j].examined[Len(scans[j].examined)])
        /\ pc = "submit" => {scans[j].path : j \in 1..Len(scans)} = HatnotePaths
        /\ \A p \in HatnotePaths :
              TargetsAt(p) \subseteq SentNow \cup DOMAIN existence_cache
C10_Witness ==
    /\ pc = "submit"
    /\ \E j \in 1..Len(scans) :
          /\ scans[j].remove
          /\ ~ExistsOnWiki(scans[j].examined[Len(scans[j].examined)])
          /\ Len(NodeAt(parsed, scans[j].path).params) = 2
          /\ Len(scans[j].examined) < Len(TemplateTargets(NodeAt(parsed, scans[j].path)))

====
